---- MODULE Spec2Model ----
(***************************************************************************)
(* Model of the address geocoding edge function of thaifloodhelp           *)
(* (src/unnamed/part_002, lines 330-466): the request handler with its     *)
(* five cascading search strategies, the regular expressions they use, and *)
(* the geocoding provider it calls (specification Spec); and of three      *)
(* React components with what they await: the Dashboard page               *)
(* (src/unnamed/part_002, lines 50-151; SpecDashboard), the QueryBot       *)
(* (src/src/components/QueryBot.tsx; SpecQueryBot) and the Review page     *)
(* (src/unnamed/part_001; SpecReview).                                     *)
(*                                                                         *)
(* A JavaScript string is a sequence of characters; a character is a       *)
(* one-element name.  Thai letters are written by their romanised names:   *)
(*   "to" = to tao, "am" = sara am, "bo" = bo baimai, "lo" = lo ling,      *)
(*   "o" = o ang, "e" = sara e, "pho" = pho samphao, "cho" = cho chan,     *)
(*   "a" = mai han-akat, "ngo" = ngo ngu, "ho" = ho hip, "wo" = wo waen,   *)
(*   "do" = do dek, "tho" = tho thung, "no" = no nu, "ko" = ko kai,        *)
(*   "mo" = mo ma.                                                         *)
(***************************************************************************)
EXTENDS Integers, Sequences, FiniteSets, TLC

VARIABLES
    \* ---- the geocode function (src/unnamed/part_002, lines 330-466)
    method,          \* req.method of the request being served
    body,            \* the request body as the client sent it
    pc,              \* position of the handler in its code
    strategy,        \* the strategy the handler is at (1..5)
    cleanedAddress,  \* const cleanedAddress (line 353)
    result,          \* let result (line 377)
    fetching,        \* the provider request awaited by tryGeocode, or null
    queries,         \* the tryGeocode calls of this request, in order: the
                     \* strategy that called and its searchAddress
    response,        \* the Response the handler returned, or null
    provider,        \* the provider's answer to every url asked so far;
                     \* its data does not change: a url asked again gets
                     \* the same answer
    served,          \* the requests completed so far
    \* ---- the Dashboard page (src/unnamed/part_002, lines 50-151)
    reports,         \* useState reports (line 52)
    filteredReports, \* useState filteredReports (line 53)
    isLoading,       \* useState isLoading (line 54)
    searchTerm,      \* useState searchTerm (line 55)
    urgencyFilter,   \* useState urgencyFilter (line 56)
    isSearching,     \* useState isSearching (line 57)
    timer,           \* the pending setTimeout of line 126 with the values its
                     \* closure holds, or null
    searches,        \* the search-reports invocations awaited at line 100
    fetches,         \* the selects awaited at lines 136-139
    table,           \* the rows of public.reports, newest first
    events,          \* postgres_changes events not yet delivered
    started,         \* how many searches and fetches the page has started
    shown,           \* where the lists shown come from: the fetch whose rows
                     \* reports holds and the fetches that failed; what set
                     \* filteredReports last (by), the search term and the
                     \* filter it was set for, the search that set it last
                     \* and the newest search that ever set it
    \* ---- the QueryBot component (src/src/components/QueryBot.tsx)
    query,           \* useState query (line 24)
    isQuerying,      \* useState isQuerying (line 25)
    answer,          \* useState result (line 26)
    invocations,     \* the query-reports invocations awaited at line 38
    asked,           \* the calls of handleQuery so far and what each did
    \* ---- the Review page (src/unnamed/part_001)
    formData,        \* useState formData (line 33)
    isSaving,        \* useState isSaving (line 34)
    phoneInput,      \* useState phoneInput (line 35)
    path,            \* the route the router is at
    inserts,         \* the inserts awaited at line 67
    saves            \* the calls of handleSave so far and how each ended

geocodeVars == <<method, body, pc, strategy, cleanedAddress, result, fetching,
                 queries, response, provider, served>>
dashboardVars == <<reports, filteredReports, isLoading, searchTerm,
                   urgencyFilter, isSearching, timer, searches, fetches, table,
                   events, started, shown>>
queryBotVars == <<query, isQuerying, answer, invocations, asked>>
reviewVars == <<formData, isSaving, phoneInput, path, inserts, saves>>
pageVars == <<dashboardVars, queryBotVars, reviewVars>>

vars == <<geocodeVars, dashboardVars, queryBotVars, reviewVars>>

(***************************************************************************)
(* Bounds of the model.                                                    *)
(***************************************************************************)
MaxRequests == 2

(***************************************************************************)
(* JavaScript values.                                                      *)
(***************************************************************************)
null == [type |-> "null"]

undefined == [type |-> "undefined"]

NaN == [type |-> "NaN"]

\* a string value; its characters are a sequence
Str(s) == [type |-> "string", value |-> s]

\* obj.name: undefined when obj has no such property
Prop(obj, name) == IF name \in DOMAIN obj THEN obj[name] ELSE undefined

\* what String.prototype.match returns when the pattern does not match
NoMatch == <<>>

(***************************************************************************)
(* Characters and character classes of the regular expressions.            *)
(***************************************************************************)
Digits == {"0", "1", "2", "3", "4", "5", "6", "7", "8", "9"}

\* \s of a regular expression, and the characters String.prototype.trim removes
WhiteSpace == {" ", "\t"}

IsDigit(c) == c \in Digits

IsSpace(c) == c \in WhiteSpace

\* the character class [\d\/\-] of streetMatch
IsHouseChar(c) == c \in Digits \cup {"/", "-"}

tambon == <<"to", "am", "bo", "lo">>

amphoe == <<"o", "am", "e", "pho", "o">>

changwat == <<"cho", "a", "ngo", "ho", "wo", "a", "do">>

thanon == <<"tho", "no", "no">>

abbrTambon == <<"to", ".">>

abbrAmphoe == <<"o", ".">>

abbrChangwat == <<"cho", ".">>

abbrThanon == <<"tho", ".">>

Min(S) == CHOOSE x \in S : \A y \in S : x <= y

\* the literal w occurs in s at index i
At(s, i, w) ==
    /\ i >= 1
    /\ i + Len(w) - 1 <= Len(s)
    /\ \A k \in 1..Len(w) : s[i + k - 1] = w[k]

\* the part of s from index i to its end
From(s, i) == SubSeq(s, i, Len(s))

\* String.prototype.trim
trim(s) ==
    LET keep == {i \in 1..Len(s) : ~IsSpace(s[i])}
    IN  IF keep = {} THEN <<>>
        ELSE SubSeq(s, Min(keep), CHOOSE i \in keep : \A j \in keep : j <= i)

\* end of the longest run of characters other than white space that starts
\* at index i (i - 1 when the run is empty): a greedy [^\s]+ or [^\s]*
NonSpaceEnd(s, i) ==
    CHOOSE e \in (i - 1)..Len(s) :
        /\ \A k \in i..e : ~IsSpace(s[k])
        /\ (e = Len(s) \/ IsSpace(s[e + 1]))

\* end of the longest run of white space that starts at index i: a greedy \s*
SpaceEnd(s, i) ==
    CHOOSE e \in (i - 1)..Len(s) :
        /\ \A k \in i..e : IsSpace(s[k])
        /\ (e = Len(s) \/ ~IsSpace(s[e + 1]))

\* end of the longest run of [\d\/\-] that starts at index i
HouseEnd(s, i) ==
    CHOOSE e \in (i - 1)..Len(s) :
        /\ \A k \in i..e : IsHouseChar(s[k])
        /\ (e = Len(s) \/ ~IsHouseChar(s[e + 1]))

\* /\d{5}/.test(s)
HasFiveDigits(s) ==
    \E i \in 1..(Len(s) - 4) : \A k \in i..(i + 4) : IsDigit(s[k])

\* /\s*\d{5}\s*$/ matches s from index i
PostalAt(s, i) ==
    \E j \in i..(Len(s) - 4) :
        /\ \A k \in i..(j - 1) : IsSpace(s[k])
        /\ \A k \in j..(j + 4) : IsDigit(s[k])
        /\ \A k \in (j + 5)..Len(s) : IsSpace(s[k])

\* s.replace(/\s*\d{5}\s*$/, ''): the leftmost match runs to the end of s
StripPostal(s) ==
    LET starts == {i \in 1..Len(s) : PostalAt(s, i)}
    IN  IF starts = {} THEN s ELSE SubSeq(s, 1, Min(starts) - 1)

\* s.replace(/w/g, a) for a literal w: every occurrence, left to right
RECURSIVE ReplaceAllFrom(_, _, _, _)
ReplaceAllFrom(s, i, w, a) ==
    IF i > Len(s) THEN <<>>
    ELSE IF At(s, i, w) THEN a \o ReplaceAllFrom(s, i + Len(w), w, a)
    ELSE <<s[i]>> \o ReplaceAllFrom(s, i + 1, w, a)

ReplaceAll(s, w, a) == ReplaceAllFrom(s, 1, w, a)

\* the rewrite without its last replace, the one that removes the postal code
AbbreviateKeepPostal(s) ==
    ReplaceAll(
        ReplaceAll(
            ReplaceAll(ReplaceAll(s, tambon, abbrTambon), amphoe, abbrAmphoe),
            changwat, abbrChangwat),
        thanon, abbrThanon)

\* const abbreviated (lines 389-394)
Abbreviate(s) ==
    StripPostal(
        ReplaceAll(
            ReplaceAll(
                ReplaceAll(ReplaceAll(s, tambon, abbrTambon), amphoe, abbrAmphoe),
                changwat, abbrChangwat),
            thanon, abbrThanon))

\* the road token (?:ถ\.|ถนน) found at index i, or the empty string
RoadAt(s, i) ==
    IF At(s, i, abbrThanon) THEN abbrThanon
    ELSE IF At(s, i, thanon) THEN thanon
    ELSE <<>>

\* cleanedAddress.match(/^[\d\/\-]+\s*(?:ถ\.|ถนน)?\s*([^\s]+)/): no match, or the
\* match with [0] the matched text and [1] the captured group.  Every
\* quantifier is greedy and gives characters back only when the rest fails.
StreetMatch(s) ==
    LET h  == HouseEnd(s, 1)
        p1 == SpaceEnd(s, h + 1) + 1
        rd == RoadAt(s, p1)
        p3 == SpaceEnd(s, p1 + Len(rd)) + 1
    IN  IF h = 0 THEN NoMatch
        ELSE IF rd # <<>> /\ p3 <= Len(s)
            \* number, road token, then the word after it
            THEN [i \in {0, 1} |->
                    IF i = 0 THEN SubSeq(s, 1, NonSpaceEnd(s, p3))
                    ELSE SubSeq(s, p3, NonSpaceEnd(s, p3))]
        ELSE IF p1 <= Len(s)
            \* no road token taken: the word starts right after the white space
            THEN [i \in {0, 1} |->
                    IF i = 0 THEN SubSeq(s, 1, NonSpaceEnd(s, p1))
                    ELSE SubSeq(s, p1, NonSpaceEnd(s, p1))]
        ELSE IF h >= 2
            \* only the number is left: its last character becomes the word
            THEN [i \in {0, 1} |->
                    IF i = 0 THEN SubSeq(s, 1, h) ELSE SubSeq(s, h, h)]
        ELSE NoMatch

\* the marker among ms found at index i of s, or the empty string
MarkerAt(s, i, ms) ==
    IF \E k \in 1..Len(ms) : At(s, i, ms[k])
    THEN ms[Min({k \in 1..Len(ms) : At(s, i, ms[k])})]
    ELSE <<>>

\* s.match(/(?:m1|m2|...)([^\s]+)/) for literal markers ms: the leftmost
\* index where a marker is followed by at least one character that is not
\* white space
MarkerMatch(s, ms) ==
    LET ok(i) == /\ MarkerAt(s, i, ms) # <<>>
                 /\ i + Len(MarkerAt(s, i, ms)) <= Len(s)
                 /\ ~IsSpace(s[i + Len(MarkerAt(s, i, ms))])
        starts == {i \in 1..Len(s) : ok(i)}
    IN  IF starts = {} THEN NoMatch
        ELSE LET i == Min(starts)
                 g == i + Len(MarkerAt(s, i, ms))
                 e == NonSpaceEnd(s, g)
             IN  [k \in {0, 1} |->
                    IF k = 0 THEN SubSeq(s, i, e) ELSE SubSeq(s, g, e)]

\* cleanedAddress.match(/(?:อ\.|อำเภอ)([^\s]+)/)
DistrictMatch(s) == MarkerMatch(s, <<abbrAmphoe, amphoe>>)

\* cleanedAddress.match(/(?:อ\.|อำเภอ|ต\.|ตำบล)([^\s]+)/)
CityMatch(s) == MarkerMatch(s, <<abbrAmphoe, amphoe, abbrTambon, tambon>>)

\* s.replace(/ตำบล|อำเภอ/, ''): the leftmost occurrence of either word
StripFormalOnce(s) ==
    LET starts == {i \in 1..Len(s) : MarkerAt(s, i, <<tambon, amphoe>>) # <<>>}
    IN  IF starts = {} THEN s
        ELSE LET i == Min(starts)
             IN  SubSeq(s, 1, i - 1)
                 \o From(s, i + Len(MarkerAt(s, i, <<tambon, amphoe>>)))

\* s.replace(/^(อ\.|ต\.)/, '')
StripLeadingAbbr(s) ==
    IF MarkerAt(s, 1, <<abbrAmphoe, abbrTambon>>) # <<>> THEN From(s, 3) ELSE s

\* const simplified (line 408)
Simplified(streetMatch, districtMatch) ==
    streetMatch[0] \o <<" ">> \o abbrAmphoe \o districtMatch[1]

\* const cityOnly (line 418)
CityOnly(cityMatch) ==
    StripLeadingAbbr(StripFormalOnce(cityMatch[0])) \o <<" ">> \o cityMatch[1]

(***************************************************************************)
(* Conversions: encodeURIComponent, parseFloat, Number to string, JSON.    *)
(***************************************************************************)
\* encodeURIComponent of one character: unreserved characters stay, every
\* other one becomes the percent-encoding of its UTF-8 bytes
EncodeChar(c) ==
    CASE c \in Digits \cup {"-", "."} -> c
      [] c = "to" -> "%E0%B8%95"
      [] c = "am" -> "%E0%B8%B3"
      [] c = "bo" -> "%E0%B8%9A"
      [] c = "lo" -> "%E0%B8%A5"
      [] c = "o" -> "%E0%B8%AD"
      [] c = "e" -> "%E0%B9%80"
      [] c = "pho" -> "%E0%B8%A0"
      [] c = "cho" -> "%E0%B8%88"
      [] c = "a" -> "%E0%B8%B1"
      [] c = "ngo" -> "%E0%B8%87"
      [] c = "ho" -> "%E0%B8%AB"
      [] c = "wo" -> "%E0%B8%A7"
      [] c = "do" -> "%E0%B8%94"
      [] c = "tho" -> "%E0%B8%96"
      [] c = "no" -> "%E0%B8%99"
      [] c = "ko" -> "%E0%B8%81"
      [] c = "mo" -> "%E0%B8%A1"
      [] c = " " -> "%20"
      [] c = "\t" -> "%09"
      [] c = "/" -> "%2F"

encodeURIComponent(s) == [i \in 1..Len(s) |-> EncodeChar(s[i])]

\* const nominatimUrl (line 360)
NominatimUrl(searchAddress) ==
    <<"https://nominatim.openstreetmap.org/search?q=">>
    \o encodeURIComponent(searchAddress)
    \o <<"&format=json&limit=3&countrycodes=th&accept-language=th">>

DigitValue(c) ==
    CASE c = "0" -> 0 [] c = "1" -> 1 [] c = "2" -> 2 [] c = "3" -> 3
      [] c = "4" -> 4 [] c = "5" -> 5 [] c = "6" -> 6 [] c = "7" -> 7
      [] c = "8" -> 8 [] c = "9" -> 9

DigitChar(n) ==
    CHOOSE c \in Digits : DigitValue(c) = n

\* the value of a run of decimal digits
RECURSIVE DecimalValue(_)
DecimalValue(ds) ==
    IF ds = <<>> THEN 0
    ELSE 10 * DecimalValue(SubSeq(ds, 1, Len(ds) - 1)) + DigitValue(ds[Len(ds)])

\* the decimal digits of a natural number
RECURSIVE DecimalDigits(_)
DecimalDigits(n) ==
    IF n < 10 THEN <<DigitChar(n)>>
    ELSE DecimalDigits(n \div 10) \o <<DigitChar(n % 10)>>

\* a run of fraction digits without its trailing zeros
RECURSIVE DropTrailingZeros(_)
DropTrailingZeros(ds) ==
    IF ds # <<>> /\ ds[Len(ds)] = "0"
    THEN DropTrailingZeros(SubSeq(ds, 1, Len(ds) - 1))
    ELSE ds

DigitEnd(s, i) ==
    CHOOSE e \in (i - 1)..Len(s) :
        /\ \A k \in i..e : IsDigit(s[k])
        /\ (e = Len(s) \/ ~IsDigit(s[e + 1]))

\* a JavaScript number: sign, integer part, fraction digits (no trailing zero)
Number(neg, int, frac) ==
    [type |-> "number", neg |-> neg /\ (int # 0 \/ frac # <<>>),
     int |-> int, frac |-> frac]

\* parseFloat: the longest decimal literal that starts s after leading white
\* space, NaN when there is none (undefined reads as "undefined": NaN)
parseFloat(v) ==
    IF v.type # "string" THEN NaN
    ELSE
    LET s  == v.value
        b  == SpaceEnd(s, 1) + 1
        sg == IF b <= Len(s) /\ s[b] \in {"+", "-"} THEN 1 ELSE 0
        i0 == b + sg
        ie == DigitEnd(s, i0)
        dt == ie + 1 <= Len(s) /\ s[ie + 1] = "."
        fe == IF dt THEN DigitEnd(s, ie + 2) ELSE ie
    IN  IF ie < i0 /\ fe < ie + 2 THEN NaN
        ELSE Number(sg = 1 /\ s[b] = "-",
                    DecimalValue(SubSeq(s, i0, ie)),
                    IF dt THEN DropTrailingZeros(SubSeq(s, ie + 2, fe)) ELSE <<>>)

\* Number to string, as a template literal does it
NumberToString(x) ==
    IF x = NaN THEN <<"N", "a", "N">>
    ELSE (IF x.neg THEN <<"-">> ELSE <<>>)
         \o DecimalDigits(x.int)
         \o (IF x.frac = <<>> THEN <<>> ELSE <<".">> \o x.frac)

\* what JSON.stringify makes of a property value: NaN becomes null
JSONValue(x) == IF x = NaN THEN null ELSE x

\* const mapLink (line 428)
MapLink(lat, lng) ==
    <<"https://maps.google.com/?q=">>
    \o NumberToString(lat) \o <<",">> \o NumberToString(lng)

(***************************************************************************)
(* The requests a client sends.                                            *)
(***************************************************************************)
placeName == <<"ko">>

otherName == <<"mo">>

postalCode == <<"1", "0", "2", "7", "0">>

\* the parts of s, each followed by one space, without the last space
RECURSIVE JoinWords(_)
JoinWords(ws) ==
    IF ws = <<>> THEN <<>>
    ELSE IF Head(ws) = <<>> THEN JoinWords(Tail(ws))
    ELSE IF JoinWords(Tail(ws)) = <<>> THEN Head(ws)
    ELSE Head(ws) \o <<" ">> \o JoinWords(Tail(ws))

Houses == {<<>>, <<"1", "2">>, <<"1", "2", "3", "4", "5">>}

Roads == {<<>>, thanon \o placeName, abbrThanon \o placeName}

SubDistricts == {<<>>, tambon \o otherName, abbrTambon \o otherName}

Districts == {<<>>, amphoe \o placeName, abbrAmphoe \o placeName}

Provinces == {<<>>, changwat \o otherName, abbrChangwat \o otherName}

PostalCodes == {<<>>, postalCode}

\* addresses written the usual way: house number, road, sub-district,
\* district, province, postal code, any of them left out
WrittenAddresses ==
    {JoinWords(<<h, r, t, a, c, z>>) :
        h \in Houses, r \in Roads, t \in SubDistricts, a \in Districts,
        c \in Provinces, z \in PostalCodes}

\* addresses written another way: padded, glued, cut short or out of order
OtherAddresses ==
    { <<" ">>, <<" ", "\t">>,
      <<" ">> \o placeName \o <<" ">>,
      <<"\t", "1", "2", " ">> \o abbrThanon \o placeName \o <<" ">>,
      placeName \o <<" ">> \o postalCode \o <<" ">>,
      placeName \o <<" ", " ">> \o postalCode,
      placeName \o postalCode \o otherName,
      postalCode \o <<"1">>,
      <<"1">>, <<"-">>, <<"1", "2", " ">> \o thanon,
      <<"1", "/", "2", " ">> \o thanon \o placeName \o <<" ">>
          \o amphoe \o otherName \o <<" ">> \o postalCode,
      <<"1", "-", "2", " ">> \o placeName \o <<" ">> \o abbrTambon \o otherName,
      <<"1", "2">> \o abbrThanon \o placeName \o <<" ">> \o abbrAmphoe,
      <<"1", "2", " ">> \o abbrThanon \o <<" ">> \o placeName \o <<" ">>
          \o abbrAmphoe \o otherName,
      abbrAmphoe \o <<" ">> \o placeName,
      abbrAmphoe \o <<" ">> \o placeName \o <<" ">> \o tambon \o otherName,
      amphoe, amphoe \o abbrAmphoe \o placeName,
      abbrAmphoe \o placeName \o tambon \o otherName,
      placeName \o otherName,
      placeName \o <<" ">> \o otherName \o <<" ">> \o postalCode,
      changwat \o otherName \o <<" ">> \o amphoe \o placeName }

\* the values a request's address field takes; no address field is undefined
AddressValues ==
    {undefined, null, [type |-> "number", value |-> 0],
     [type |-> "number", value |-> 42], [type |-> "boolean", value |-> TRUE],
     [type |-> "object"]}
    \cup {Str(s) : s \in WrittenAddresses \cup OtherAddresses}

\* a body req.json() parses to an object, or one it rejects
Bodies ==
    {[json |-> FALSE]} \cup {[json |-> TRUE, address |-> v] : v \in AddressValues}

Methods == {"OPTIONS", "POST"}

\* !v
Falsy(v) ==
    \/ v.type \in {"undefined", "null"}
    \/ v.type = "number" /\ v.value = 0
    \/ v.type = "boolean" /\ ~v.value
    \/ v.type = "string" /\ v.value = <<>>

\* typeof v
TypeOf(v) == IF v.type = "null" THEN "object" ELSE v.type

(***************************************************************************)
(* The geocoding provider.                                                 *)
(***************************************************************************)
\* limit=3 of the provider request
Limit == 3

bangNa ==
    [lat |-> Str(<<"1", "3", ".", "6", "5", "0">>),
     lon |-> Str(<<"1", "0", "0", ".", "6">>),
     display_name |-> Str(<<"Bang Na">>)]

chiangMai ==
    [lat |-> Str(<<"1", "8", ".", "7", "9">>),
     lon |-> Str(<<"9", "8", ".", "9", "8", "0", "5">>),
     display_name |-> Str(<<"Chiang Mai">>)]

\* the outcomes of fetch: a rejected promise (network failure), or a
\* response with its status and, when it is JSON, the candidates
Replies ==
    { [rejected |-> TRUE],
      [rejected |-> FALSE, status |-> 503],
      [rejected |-> FALSE, status |-> 200, data |-> <<>>],
      [rejected |-> FALSE, status |-> 200, data |-> <<chiangMai>>],
      [rejected |-> FALSE, status |-> 200, data |-> <<bangNa, chiangMai>>] }

\* response.ok
Ok(reply) == reply.status >= 200 /\ reply.status <= 299

\* the last candidate taken instead of the first
LastCandidate(data) == IF Len(data) > 0 THEN data[Len(data)] ELSE null

\* data && data.length > 0 ? data[0] : null (line 373)
FirstCandidate(data) == IF Len(data) > 0 THEN data[1] ELSE null

\* tryGeocode with a failed call swallowed: it logs and returns null
TryGeocodeSwallows(reply) ==
    IF reply.rejected \/ ~Ok(reply)
    THEN [threw |-> FALSE, value |-> null]
    ELSE [threw |-> FALSE, value |-> FirstCandidate(reply.data)]

\* how tryGeocode ends once its fetch settles with reply (lines 362-373):
\* it throws when the fetch rejects or the status is not ok, and returns
\* the first candidate or null otherwise
TryGeocodeEnds(reply) ==
    IF reply.rejected
    THEN [threw |-> TRUE, message |-> <<"error sending request">>]
    ELSE IF ~Ok(reply)
    THEN [threw |-> TRUE,
          message |-> <<"Nominatim API error: ">> \o DecimalDigits(reply.status)]
    ELSE [threw |-> FALSE, value |-> FirstCandidate(reply.data)]

\* the provider's answers to the urls asked so far: none
NoAnswers == [u \in {} |-> null]

\* the answers the provider may give to url: the one it gave before, or,
\* to a url not asked yet, any
Answers(url) ==
    IF url \in DOMAIN provider THEN {provider[url]}
    ELSE {r \in Replies : r.rejected \/ ~Ok(r) \/ Len(r.data) <= Limit}

(***************************************************************************)
(* The handler (serve, lines 337-466).                                     *)
(***************************************************************************)
\* the test of line 345
InvalidAddress(address) == Falsy(address) \/ TypeOf(address) # "string"

\* strategy 2 only for addresses with a formal term, as the comment of
\* lines 379-380 words it
TryWithoutPostalFormalOnly(res, address) ==
    /\ res = null
    /\ HasFiveDigits(address)
    /\ \E i \in 1..Len(address) :
        MarkerAt(address, i, <<tambon, amphoe, changwat>>) # <<>>

\* strategy 2 without the test for five digits
TryWithoutPostalAlways(res, address) == res = null

\* the test of line 381
TryWithoutPostal(res, address) == res = null /\ HasFiveDigits(address)

\* const withoutPostal (line 382)
WithoutPostal(address) == StripPostal(address)

\* strategy 3 without the test of line 396
TryAbbreviatedUnconditional(res, address) == res = null

\* strategy 3 with a memory of the rewrites it has sent for earlier requests
TryAbbreviatedOnce(res, address) ==
    /\ res = null
    /\ Abbreviate(address) # address
    /\ \A i \in 1..Len(served) : \A k \in 1..Len(served[i].queries) :
        served[i].queries[k].searchAddress # Abbreviate(address)

\* the tests of lines 388 and 396
TryAbbreviated(res, address) == res = null /\ Abbreviate(address) # address

\* strategy 4 without the test of line 403
TryStreetDistrictAfterMatch(res, address) ==
    /\ StreetMatch(address) # NoMatch
    /\ DistrictMatch(address) # NoMatch

\* the tests of lines 403 and 407
TryStreetDistrict(res, address) ==
    /\ res = null
    /\ StreetMatch(address) # NoMatch
    /\ DistrictMatch(address) # NoMatch

\* strategy 5 without the test of line 415
TryCityOnlyAfterMatch(res, address) == CityMatch(address) # NoMatch

\* the tests of lines 415 and 417
TryCityOnly(res, address) == res = null /\ CityMatch(address) # NoMatch

\* the invalid-address response built without its status
InvalidInputNoStatus ==
    [status |-> 200, body |-> [error |-> Str(<<"Invalid address">>)]]

\* the response of lines 346-349
InvalidInput ==
    [status |-> 400, body |-> [error |-> Str(<<"Invalid address">>)]]

\* the response of the catch block (lines 458-465)
ServerError(message) == [status |-> 500, body |-> [error |-> Str(message)]]

\* the found response reading the candidate's lng, a property it has not
FoundFromLng(res) ==
    LET lat == parseFloat(Prop(res, "lat"))
        lng == parseFloat(Prop(res, "lng"))
    IN  [status |-> 200,
         body |-> [lat |-> JSONValue(lat), lng |-> JSONValue(lng),
                   map_link |-> Str(MapLink(lat, lng)),
                   display_name |-> Prop(res, "display_name"),
                   success |-> TRUE]]

\* the response of lines 425-441; a Response without a status has status 200
Found(res) ==
    LET lat == parseFloat(Prop(res, "lat"))
        lng == parseFloat(Prop(res, "lon"))
    IN  [status |-> 200,
         body |-> [lat |-> JSONValue(lat), lng |-> JSONValue(lng),
                   map_link |-> Str(MapLink(lat, lng)),
                   display_name |-> Prop(res, "display_name"),
                   success |-> TRUE]]

\* no match reported as an error
NotFoundAsError ==
    [status |-> 404,
     body |-> [error |-> Str(<<"Address could not be geocoded">>)]]

\* the response of lines 447-456
NotFound ==
    [status |-> 200,
     body |-> [lat |-> null, lng |-> null, map_link |-> null, success |-> FALSE,
               message |-> Str(<<"Address could not be geocoded">>)]]

\* the response of line 339
Preflight == [status |-> 200, body |-> null]

\* the handler returns resp: the request is complete
Return(resp) ==
    /\ response' = resp
    /\ pc' = "done"
    /\ served' = Append(served, [method |-> method, body |-> body,
                                 queries |-> queries, response |-> resp])

\* the handler goes on to the strategy after k, or to the response
GoOn(k) ==
    IF k < 5 THEN pc' = "strategy" /\ strategy' = k + 1
    ELSE pc' = "respond" /\ strategy' = strategy

\* await tryGeocode(searchAddress) up to its fetch (lines 359-366)
TryGeocode(searchAddress) ==
    /\ fetching' = NominatimUrl(searchAddress)
    /\ queries' = Append(queries, [strategy |-> strategy,
                                   searchAddress |-> searchAddress])
    /\ pc' = "fetch"
    /\ UNCHANGED <<method, body, strategy, cleanedAddress, result, response,
                   provider, served>>
    /\ UNCHANGED pageVars

\* the handler passes strategy k without a provider call
Skip(k) ==
    /\ GoOn(k)
    /\ UNCHANGED <<method, body, cleanedAddress, result, fetching, queries,
                   response, provider, served>>
    /\ UNCHANGED pageVars

\* no request has been received
NoRequest ==
    /\ method = "POST"
    /\ body = [json |-> FALSE]
    /\ pc = "idle"
    /\ strategy = 1
    /\ cleanedAddress = <<>>
    /\ result = null
    /\ fetching = null
    /\ queries = <<>>
    /\ response = null
    /\ provider = NoAnswers
    /\ served = <<>>

\* the initial values of the Dashboard's state (lines 52-57), nothing awaited
DashboardState ==
    /\ reports = <<>>
    /\ filteredReports = <<>>
    /\ isLoading = TRUE
    /\ searchTerm = <<>>
    /\ urgencyFilter = null
    /\ isSearching = FALSE
    /\ searches = {}
    /\ table = <<>>
    /\ events = 0
    /\ shown = [reports |-> 0, failed |-> {}, by |-> "useState",
                searchTerm |-> <<>>, urgencyFilter |-> null,
                search |-> 0, newest |-> 0]

\* the Dashboard is not open
NoDashboard ==
    /\ DashboardState
    /\ timer = null
    /\ fetches = {}
    /\ started = [search |-> 0, fetch |-> 0, input |-> 0]

\* the initial values of the QueryBot's state (lines 24-26), nothing awaited
NoQuery ==
    /\ query = <<>>
    /\ isQuerying = FALSE
    /\ answer = null
    /\ invocations = <<>>
    /\ asked = <<>>

\* the initial values of the Review page's state (lines 33-35), before its
\* effect has run
NoReview ==
    /\ formData = null
    /\ isSaving = FALSE
    /\ phoneInput = <<>>
    /\ path = "/review"
    /\ inserts = <<>>
    /\ saves = <<>>

Init ==
    /\ NoRequest
    /\ NoDashboard
    /\ NoQuery
    /\ NoReview

\* a client sends a request; after the first one, the same request again
Request ==
    /\ pc \in {"idle", "done"}
    /\ Len(served) < MaxRequests
    /\ \E m \in Methods, b \in Bodies :
        /\ served # <<>> => m = served[1].method /\ b = served[1].body
        /\ method' = m
        /\ body' = b
    /\ pc' = "start"
    /\ strategy' = 1
    /\ cleanedAddress' = <<>>
    /\ result' = null
    /\ fetching' = null
    /\ queries' = <<>>
    /\ response' = null
    /\ UNCHANGED <<provider, served>>
    /\ UNCHANGED pageVars

\* lines 338-340
Options ==
    /\ pc = "start"
    /\ method = "OPTIONS"
    /\ Return(Preflight)
    /\ UNCHANGED <<method, body, strategy, cleanedAddress, result, fetching,
                   queries, provider>>
    /\ UNCHANGED pageVars

\* lines 342-355: parse the body, validate and trim the address
Validate ==
    /\ pc = "start"
    /\ method # "OPTIONS"
    /\ IF ~body.json
       THEN /\ Return(ServerError(<<"Unexpected end of JSON input">>))
            /\ UNCHANGED <<strategy, cleanedAddress>>
       ELSE IF InvalidAddress(body.address)
       THEN /\ Return(InvalidInput)
            /\ UNCHANGED <<strategy, cleanedAddress>>
       ELSE /\ cleanedAddress' = trim(body.address.value)
            /\ pc' = "strategy"
            /\ strategy' = 1
            /\ UNCHANGED <<response, served>>
    /\ UNCHANGED <<method, body, result, fetching, queries, provider>>
    /\ UNCHANGED pageVars

\* line 377
Strategy1 ==
    /\ pc = "strategy"
    /\ strategy = 1
    /\ TryGeocode(cleanedAddress)

\* lines 381-385
Strategy2 ==
    /\ pc = "strategy"
    /\ strategy = 2
    /\ IF TryWithoutPostal(result, cleanedAddress)
       THEN TryGeocode(WithoutPostal(cleanedAddress))
       ELSE Skip(2)

\* lines 388-400
Strategy3 ==
    /\ pc = "strategy"
    /\ strategy = 3
    /\ IF TryAbbreviated(result, cleanedAddress)
       THEN TryGeocode(Abbreviate(cleanedAddress))
       ELSE Skip(3)

\* strategy 4 tried with the street alone when only the street matches
Strategy4StreetOnly ==
    /\ pc = "strategy"
    /\ strategy = 4
    /\ IF result = null /\ StreetMatch(cleanedAddress) # NoMatch
       THEN TryGeocode(StreetMatch(cleanedAddress)[0])
       ELSE Skip(4)

\* lines 403-412
Strategy4 ==
    /\ pc = "strategy"
    /\ strategy = 4
    /\ IF TryStreetDistrict(result, cleanedAddress)
       THEN TryGeocode(Simplified(StreetMatch(cleanedAddress),
                                  DistrictMatch(cleanedAddress)))
       ELSE Skip(4)

\* lines 415-422
Strategy5 ==
    /\ pc = "strategy"
    /\ strategy = 5
    /\ IF TryCityOnly(result, cleanedAddress)
       THEN TryGeocode(CityOnly(CityMatch(cleanedAddress)))
       ELSE Skip(5)

\* the fetch of tryGeocode settles (lines 362-373): what it returns is
\* assigned to result and the handler goes on; what it throws is caught by
\* the catch block (lines 458-465)
FetchSettles ==
    /\ pc = "fetch"
    /\ \E reply \in Answers(fetching) :
        /\ provider' = [u \in DOMAIN provider \cup {fetching} |->
                            IF u = fetching THEN reply ELSE provider[u]]
        /\ IF TryGeocodeEnds(reply).threw
           THEN /\ Return(ServerError(TryGeocodeEnds(reply).message))
                /\ UNCHANGED <<strategy, result>>
           ELSE /\ result' = TryGeocodeEnds(reply).value
                /\ GoOn(strategy)
                /\ UNCHANGED <<response, served>>
    /\ fetching' = null
    /\ UNCHANGED <<method, body, cleanedAddress, queries>>
    /\ UNCHANGED pageVars

\* lines 425-456
Respond ==
    /\ pc = "respond"
    /\ Return(IF result # null THEN Found(result) ELSE NotFound)
    /\ UNCHANGED <<method, body, strategy, cleanedAddress, result, fetching,
                   queries, provider>>
    /\ UNCHANGED pageVars

Next ==
    \/ Request
    \/ Options
    \/ Validate
    \/ Strategy1
    \/ Strategy2
    \/ Strategy3
    \/ Strategy4
    \/ Strategy5
    \/ FetchSettles
    \/ Respond

Spec == Init /\ [][Next]_vars

(***************************************************************************)
(* The Dashboard page (src/unnamed/part_002, lines 50-151): the list of    *)
(* reports it fetches, the realtime subscription that fetches it again,    *)
(* and the debounced search.  What the page awaits stays in flight until   *)
(* it settles, and what is in flight settles in any order.                 *)
(***************************************************************************)
\* rows the table comes to hold
MaxRows == 2
\* search-reports invocations the page comes to start
MaxSearches == 2
\* changes the user comes to make to the search box and the filter
MaxInputs == 2

\* a JavaScript number that is an integer
Num(n) == [type |-> "number", value |-> n]

\* a JavaScript array, where a value may also be null
Arr(list) == [type |-> "array", value |-> list]

\* the levels of the filter buttons that are pressed (lines 247-257)
Levels == {Num(1), Num(5)}

\* what is typed into the search box (lines 227-231)
SearchTerms == {<<>>, <<" ">>, <<"ko">>, <<"ko", "mo">>}

\* a row of public.reports, as far as the page looks at it (lines 29-48)
Report(id, level) == [id |-> id, urgency_level |-> level]

\* the urgency level of the id-th row inserted
LevelOf(id) == IF id % 2 = 1 THEN Num(1) ELSE Num(5)

\* lines 89-91 and 112-114: the filter by urgency_level, kept when
\* urgencyFilter is not null
Restrict(list, level) ==
    IF level # null
    THEN SelectSeq(list, LAMBDA r : r.urgency_level = level)
    ELSE list

\* data || [] (lines 144-145) and data.reports || [] (line 106)
OrEmpty(v) == IF v.type = "array" THEN v.value ELSE <<>>

\* the effect of lines 83-131 runs when reports, searchTerm or urgencyFilter
\* changed: the timer of the run before is cleared (line 129) and a timer is
\* set (line 126) for searchReports, which closes over the three values
Debounce(rs, term, level) ==
    [reports |-> rs, searchTerm |-> term, urgencyFilter |-> level]

\* fetchReports up to its await (lines 133-139); the select reads the table
\* as it is now
FetchReports ==
    /\ isLoading' = TRUE
    /\ fetches' = fetches \cup {[seq |-> started.fetch + 1, data |-> table]}
    /\ started' = [started EXCEPT !.fetch = @ + 1]

\* the answers of search-reports to an invocation: an error, no reports
\* field, or the rows of the table that have the urgency level asked for
SearchReplies(s) ==
    { [error |-> TRUE, data |-> null],
      [error |-> FALSE, data |-> [reports |-> null]],
      [error |-> FALSE,
       data |-> [reports |-> Arr(Restrict(table, s.urgencyFilter))]] }

\* the answers of the select of lines 136-139 that read rows: an error, or
\* the rows
SelectReplies(rows) ==
    { [error |-> TRUE, data |-> null], [error |-> FALSE, data |-> Arr(rows)] }

\* the greater of two numbers
Max(a, b) == IF a >= b THEN a ELSE b

\* the page has been mounted: the effect of lines 59-81 has called
\* fetchReports and subscribed, the effect of lines 83-131 has set its timer
InitDashboard ==
    /\ NoRequest
    /\ DashboardState
    /\ timer = Debounce(<<>>, <<>>, null)
    /\ fetches = {[seq |-> 1, data |-> <<>>]}
    /\ started = [search |-> 0, fetch |-> 1, input |-> 0]
    /\ NoQuery
    /\ NoReview

\* line 230: the search box changes
SetSearchTerm ==
    /\ started.input < MaxInputs
    /\ \E term \in SearchTerms \ {searchTerm} :
        /\ searchTerm' = term
        /\ timer' = Debounce(reports, term, urgencyFilter)
    /\ started' = [started EXCEPT !.input = @ + 1]
    /\ UNCHANGED <<reports, filteredReports, isLoading, urgencyFilter,
                   isSearching, searches, fetches, table, events, shown>>
    /\ UNCHANGED <<geocodeVars, queryBotVars, reviewVars>>

\* lines 242 and 252: a filter button is pressed
SetUrgencyFilter ==
    /\ started.input < MaxInputs
    /\ \E level \in (Levels \cup {null}) \ {urgencyFilter} :
        /\ urgencyFilter' = level
        /\ timer' = Debounce(reports, searchTerm, level)
    /\ started' = [started EXCEPT !.input = @ + 1]
    /\ UNCHANGED <<reports, filteredReports, isLoading, searchTerm,
                   isSearching, searches, fetches, table, events, shown>>
    /\ UNCHANGED <<geocodeVars, queryBotVars, reviewVars>>

\* the timer of line 126 fires after 500 ms: searchReports (lines 84-100)
\* filters locally when the term is blank, and otherwise invokes
\* search-reports and awaits it
TimerFires ==
    /\ timer # null
    /\ timer' = null
    /\ IF trim(timer.searchTerm) = <<>>
       THEN /\ filteredReports' = Restrict(timer.reports, timer.urgencyFilter)
            /\ shown' = [shown EXCEPT !.by = "timer",
                                      !.searchTerm = timer.searchTerm,
                                      !.urgencyFilter = timer.urgencyFilter]
            /\ UNCHANGED <<isSearching, searches, started>>
       ELSE /\ started.search < MaxSearches
            /\ isSearching' = TRUE
            /\ searches' = searches \cup
                    {[seq |-> started.search + 1,
                      query |-> timer.searchTerm,
                      urgencyFilter |-> timer.urgencyFilter,
                      reports |-> timer.reports]}
            /\ started' = [started EXCEPT !.search = @ + 1]
            /\ UNCHANGED <<filteredReports, shown>>
    /\ UNCHANGED <<reports, isLoading, searchTerm, urgencyFilter, fetches,
                   table, events>>
    /\ UNCHANGED <<geocodeVars, queryBotVars, reviewVars>>

\* an awaited search-reports invocation settles (lines 100-122)
SearchSettles ==
    /\ \E s \in searches :
        /\ \E reply \in SearchReplies(s) :
            filteredReports' =
                IF reply.error
                THEN Restrict(s.reports, s.urgencyFilter)
                ELSE OrEmpty(reply.data.reports)
        /\ searches' = searches \ {s}
        /\ shown' = [shown EXCEPT !.by = "search",
                                  !.searchTerm = s.query,
                                  !.urgencyFilter = s.urgencyFilter,
                                  !.search = s.seq,
                                  !.newest = Max(@, s.seq)]
    /\ isSearching' = FALSE
    /\ UNCHANGED <<reports, isLoading, searchTerm, urgencyFilter, timer,
                   fetches, table, events, started>>
    /\ UNCHANGED <<geocodeVars, queryBotVars, reviewVars>>

\* somebody inserts a row into public.reports; the table is in the realtime
\* publication (migration, line 64), so an event goes to the subscribers
DatabaseChanges ==
    /\ Len(table) < MaxRows
    /\ table' = <<Report(Len(table) + 1, LevelOf(Len(table) + 1))>> \o table
    /\ events' = events + 1
    /\ UNCHANGED <<reports, filteredReports, isLoading, searchTerm,
                   urgencyFilter, isSearching, timer, searches, fetches,
                   started, shown>>
    /\ UNCHANGED <<geocodeVars, queryBotVars, reviewVars>>

\* lines 62-75: the callback of the subscription calls fetchReports
OnPostgresChanges ==
    /\ events > 0
    /\ events' = events - 1
    /\ FetchReports
    /\ UNCHANGED <<reports, filteredReports, searchTerm, urgencyFilter,
                   isSearching, timer, searches, table, shown>>
    /\ UNCHANGED <<geocodeVars, queryBotVars, reviewVars>>

\* an awaited select settles (lines 136-150); setReports changes reports, so
\* the effect of lines 83-131 runs again
SelectSettles ==
    /\ \E f \in fetches :
        /\ fetches' = fetches \ {f}
        /\ \E reply \in SelectReplies(f.data) :
            IF reply.error
            THEN /\ shown' = [shown EXCEPT !.failed = @ \cup {f.seq}]
                 /\ UNCHANGED <<reports, filteredReports, timer>>
            ELSE /\ reports' = OrEmpty(reply.data)
                 /\ filteredReports' = OrEmpty(reply.data)
                 /\ timer' = Debounce(OrEmpty(reply.data), searchTerm,
                                      urgencyFilter)
                 /\ shown' = [shown EXCEPT !.by = "fetch",
                                           !.reports = f.seq,
                                           !.searchTerm = searchTerm,
                                           !.urgencyFilter = urgencyFilter]
    /\ isLoading' = FALSE
    /\ UNCHANGED <<searchTerm, urgencyFilter, isSearching, searches, table,
                   events, started>>
    /\ UNCHANGED <<geocodeVars, queryBotVars, reviewVars>>

NextDashboard ==
    \/ SetSearchTerm
    \/ SetUrgencyFilter
    \/ TimerFires
    \/ SearchSettles
    \/ DatabaseChanges
    \/ OnPostgresChanges
    \/ SelectSettles

SpecDashboard == InitDashboard /\ [][NextDashboard]_vars

(***************************************************************************)
(* The QueryBot component (src/src/components/QueryBot.tsx): a question is *)
(* sent to query-reports and the answer is shown.                          *)
(***************************************************************************)
\* calls of handleQuery the user comes to make
MaxQueries == 3

\* what is typed into the input (lines 82-89)
Queries == {<<>>, <<" ">>, <<"ko">>, <<"ko", " ">>}

\* a QueryResult (lines 10-21) that answers the question q
QueryResult(q) ==
    [error |-> undefined, summary |-> Str(q), count |-> Num(0),
     reports |-> <<>>]

\* what supabase.functions.invoke('query-reports') resolves to (line 38): a
\* transport error, data that carries an error, or a QueryResult
QueryReplies(q) ==
    { [error |-> Str(<<"FunctionsHttpError">>), data |-> null],
      [error |-> null, data |-> [error |-> Str(<<"no answer">>)]],
      [error |-> null, data |-> QueryResult(q)] }

\* lines 42-48: what the try block throws on the reply
Throws(reply) == ~Falsy(reply.error) \/ ~Falsy(reply.data.error)

\* the calls of handleQuery made so far
Calls(log) == {i \in 1..Len(log) : log[i] \in {"blank", "invoked"}}

\* the button sends although a question is being asked
CanSendWhileQuerying == trim(query) # <<>>

\* line 90: the button is not disabled
CanSend == ~(isQuerying \/ trim(query) = <<>>)

\* line 87: the input is not disabled
CanType == ~isQuerying

\* handleQuery up to its await (lines 28-40)
HandleQuery ==
    IF trim(query) = <<>>
    THEN /\ asked' = Append(asked, "blank")
         /\ UNCHANGED <<query, isQuerying, answer, invocations>>
    ELSE /\ isQuerying' = TRUE
         /\ answer' = null
         /\ invocations' = Append(invocations, [query |-> trim(query)])
         /\ asked' = Append(asked, "invoked")
         /\ UNCHANGED query

\* the component has been mounted
InitQueryBot ==
    /\ NoRequest
    /\ NoDashboard
    /\ NoQuery
    /\ NoReview

\* line 85: the input changes
SetQuery ==
    /\ CanType
    /\ \E q \in Queries \ {query} : query' = q
    /\ UNCHANGED <<isQuerying, answer, invocations, asked>>
    /\ UNCHANGED <<geocodeVars, dashboardVars, reviewVars>>

\* line 90: the button is pressed
ClickSend ==
    /\ CanSend
    /\ Cardinality(Calls(asked)) < MaxQueries
    /\ HandleQuery
    /\ UNCHANGED <<geocodeVars, dashboardVars, reviewVars>>

\* lines 61-66: Enter is pressed in the input
PressEnter ==
    /\ CanType
    /\ Cardinality(Calls(asked)) < MaxQueries
    /\ HandleQuery
    /\ UNCHANGED <<geocodeVars, dashboardVars, reviewVars>>

\* an awaited invocation settles (lines 38-58)
InvokeSettles ==
    /\ \E i \in 1..Len(invocations) :
        /\ invocations' = SubSeq(invocations, 1, i - 1) \o
                          SubSeq(invocations, i + 1, Len(invocations))
        /\ \E reply \in QueryReplies(invocations[i].query) :
            IF Throws(reply)
            THEN /\ asked' = Append(asked, "failed")
                 /\ UNCHANGED answer
            ELSE /\ asked' = Append(asked, "answered")
                 /\ answer' = reply.data
    /\ isQuerying' = FALSE
    /\ UNCHANGED query
    /\ UNCHANGED <<geocodeVars, dashboardVars, reviewVars>>

NextQueryBot ==
    \/ SetQuery
    \/ ClickSend
    \/ PressEnter
    \/ InvokeSettles

SpecQueryBot == InitQueryBot /\ [][NextQueryBot]_vars

(***************************************************************************)
(* The Review page (src/unnamed/part_001): the extracted data is edited    *)
(* and inserted into public.reports.                                       *)
(***************************************************************************)
\* calls of handleSave the user comes to make
MaxSaves == 2

\* what the name and the address fields hold (lines 134-135, 154-155)
Names == {Str(<<>>), Str(<<"ko">>)}
Addresses == {Str(<<>>), Str(<<"mo">>)}

\* what the coordinate fields hold (lines 176-177, 186-187)
Coordinates == {Str(<<>>), Str(<<"7", ".", "5">>)}

\* the phone numbers of the extracted data
PhoneLists == {<<>>, <<(<<"0", "8">>), (<<"0", "9">>)>>}

\* what is typed into the phone field (lines 165-166)
PhoneInputs == {<<>>, <<"0", "8", ",">>, <<"0", "8", ",", " ", "0", "9">>}

\* Array.prototype.join(', ')
RECURSIVE Join(_)
Join(list) ==
    IF list = <<>> THEN <<>>
    ELSE IF Len(list) = 1 THEN list[1]
    ELSE list[1] \o <<",", " ">> \o Join(Tail(list))

\* String.prototype.split(',')
RECURSIVE Split(_)
Split(s) ==
    IF \A i \in 1..Len(s) : s[i] # ","
    THEN <<s>>
    ELSE LET i == Min({k \in 1..Len(s) : s[k] = ","})
         IN  <<SubSeq(s, 1, i - 1)>> \o Split(SubSeq(s, i + 1, Len(s)))

\* lines 55-58: the phone numbers of the phone field
Phones(input) ==
    SelectSeq([i \in 1..Len(Split(input)) |-> trim(Split(input)[i])],
              LAMBDA ph : Len(ph) > 0)

\* location.state.extractedData, as far as the page looks at it (lines 14-28)
ExtractedData(name, address, lat, long, phone) ==
    [name |-> name, address |-> address, location_lat |-> lat,
     location_long |-> long, phone |-> phone]

\* lines 60-65
DataToSave(data, input) ==
    [data EXCEPT !.phone = Phones(input),
                 !.location_lat = IF ~Falsy(@) THEN parseFloat(@) ELSE null,
                 !.location_long = IF ~Falsy(@) THEN parseFloat(@) ELSE null]

\* the button saves although a save is going on
CanSaveWhileSaving == ~(Falsy(formData.name) \/ Falsy(formData.address))

\* line 272: the button is not disabled
CanSave == ~(isSaving \/ Falsy(formData.name) \/ Falsy(formData.address))

\* the page is shown: the router is at it and it renders (lines 88-90)
Shown == path = "/review" /\ formData # null

\* lines 69-82: what follows the insert, by whether it failed
AfterInsert(failed) ==
    IF failed
    THEN /\ saves' = Append(saves, "failed")
         /\ UNCHANGED path
    ELSE /\ saves' = Append(saves, "saved")
         /\ path' = "/dashboard"

\* handleSave up to its await (lines 48-67)
HandleSave ==
    /\ formData # null
    /\ isSaving' = TRUE
    /\ inserts' = Append(inserts, DataToSave(formData, phoneInput))
    /\ saves' = Append(saves, "started")
    /\ UNCHANGED <<formData, phoneInput, path>>

\* the page has been mounted and its effect has run (lines 37-46): without
\* extracted data it has left for the start page
InitReview ==
    /\ NoRequest
    /\ NoDashboard
    /\ NoQuery
    /\ isSaving = FALSE
    /\ inserts = <<>>
    /\ saves = <<>>
    /\ \/ /\ formData = null
          /\ phoneInput = <<>>
          /\ path = "/"
       \/ /\ \E name \in Names, address \in Addresses, lat \in Coordinates,
               phone \in PhoneLists :
                /\ formData = ExtractedData(name, address, lat, lat, phone)
                /\ phoneInput = Join(phone)
          /\ path = "/review"

\* line 105: back to the start page
GoBack ==
    /\ Shown
    /\ path' = "/"
    /\ UNCHANGED <<formData, isSaving, phoneInput, inserts, saves>>
    /\ UNCHANGED <<geocodeVars, dashboardVars, queryBotVars>>

\* line 135
SetName ==
    /\ Shown
    /\ \E name \in Names \ {formData.name} :
        formData' = [formData EXCEPT !.name = name]
    /\ UNCHANGED <<isSaving, phoneInput, path, inserts, saves>>
    /\ UNCHANGED <<geocodeVars, dashboardVars, queryBotVars>>

\* line 155
SetAddress ==
    /\ Shown
    /\ \E address \in Addresses \ {formData.address} :
        formData' = [formData EXCEPT !.address = address]
    /\ UNCHANGED <<isSaving, phoneInput, path, inserts, saves>>
    /\ UNCHANGED <<geocodeVars, dashboardVars, queryBotVars>>

\* line 166
SetPhoneInput ==
    /\ Shown
    /\ \E input \in PhoneInputs \ {phoneInput} : phoneInput' = input
    /\ UNCHANGED <<formData, isSaving, path, inserts, saves>>
    /\ UNCHANGED <<geocodeVars, dashboardVars, queryBotVars>>

\* line 177
SetLocationLat ==
    /\ Shown
    /\ \E lat \in Coordinates \ {formData.location_lat} :
        formData' = [formData EXCEPT !.location_lat = lat]
    /\ UNCHANGED <<isSaving, phoneInput, path, inserts, saves>>
    /\ UNCHANGED <<geocodeVars, dashboardVars, queryBotVars>>

\* line 271: the button is pressed
ClickSave ==
    /\ Shown
    /\ CanSave
    /\ Cardinality({i \in 1..Len(saves) : saves[i] = "started"}) < MaxSaves
    /\ HandleSave
    /\ UNCHANGED <<geocodeVars, dashboardVars, queryBotVars>>

\* an awaited insert settles (lines 67-85)
InsertSettles ==
    /\ \E i \in 1..Len(inserts) :
        inserts' = SubSeq(inserts, 1, i - 1) \o
                   SubSeq(inserts, i + 1, Len(inserts))
    /\ \E failed \in BOOLEAN : AfterInsert(failed)
    /\ isSaving' = FALSE
    /\ UNCHANGED <<formData, phoneInput>>
    /\ UNCHANGED <<geocodeVars, dashboardVars, queryBotVars>>

NextReview ==
    \/ GoBack
    \/ SetName
    \/ SetAddress
    \/ SetPhoneInput
    \/ SetLocationLat
    \/ ClickSave
    \/ InsertSettles

SpecReview == InitReview /\ [][NextReview]_vars

(***************************************************************************)
(* What the completed requests show.                                       *)
(***************************************************************************)
\* the completed requests, looked at when a request has just completed
Served == IF pc = "done" THEN {served[i] : i \in 1..Len(served)} ELSE {}

\* e is a POST whose body is an object with a string as address
HasStringAddress(e) ==
    e.method = "POST" /\ e.body.json /\ e.body.address.type = "string"

\* the trimmed address of such a request
Trimmed(e) == trim(e.body.address.value)

\* the provider's answer to call k of request e
AnswerTo(e, k) == provider[NominatimUrl(e.queries[k].searchAddress)]

\* call k of request e failed: the fetch rejected or the status was not ok
CallFailed(e, k) == AnswerTo(e, k).rejected \/ ~Ok(AnswerTo(e, k))

\* call k of request e returned an empty candidate list
CallEmpty(e, k) == ~CallFailed(e, k) /\ AnswerTo(e, k).data = <<>>

\* call k of request e returned at least one candidate
CallMatched(e, k) == ~CallFailed(e, k) /\ AnswerTo(e, k).data # <<>>

\* r is an {error} response with a status from lo to hi
IsError(r, lo, hi) ==
    /\ r.status >= lo
    /\ r.status <= hi
    /\ DOMAIN r.body = {"error"}
    /\ r.body.error.type = "string"

\* r is the not-found response: success status, lat, lng and map_link null,
\* success false and a non-empty message
IsNotFound(r) ==
    /\ r.status >= 200
    /\ r.status <= 299
    /\ DOMAIN r.body = {"lat", "lng", "map_link", "success", "message"}
    /\ r.body.lat = null
    /\ r.body.lng = null
    /\ r.body.map_link = null
    /\ r.body.success = FALSE
    /\ r.body.message.type = "string"
    /\ r.body.message.value # <<>>

\* r is a complete found response
IsFound(r) ==
    /\ r.status >= 200
    /\ r.status <= 299
    /\ DOMAIN r.body = {"lat", "lng", "map_link", "display_name", "success"}
    /\ r.body.lat.type = "number"
    /\ r.body.lng.type = "number"
    /\ r.body.map_link.type = "string"
    /\ r.body.display_name.type = "string"
    /\ r.body.success = TRUE

\* the address c ends in five digits
EndsInPostalCode(c) ==
    Len(c) >= 5 /\ \A i \in (Len(c) - 4)..Len(c) : IsDigit(c[i])

\* such an address without its last five characters and the white space
\* before them
PostalCodeRemoved(c) == trim(SubSeq(c, 1, Len(c) - 5))

\* the address c has no digit
NoDigits(c) == \A i \in 1..Len(c) : ~IsDigit(c[i])

\* the address c has none of the four formal terms strategy 3 abbreviates
NoFormalTerm(c) ==
    \A i \in 1..Len(c) :
        MarkerAt(c, i, <<tambon, amphoe, changwat, thanon>>) = <<>>

(***************************************************************************)
(* C1: for an empty or whitespace-only address the resolver answers        *)
(* InvalidInput, an {error} response with a client-error status, and makes *)
(* no call to the geocoding provider.                                      *)
(***************************************************************************)
C1_BlankAddressIsInvalidInput ==
    \A e \in Served :
        HasStringAddress(e) /\ Trimmed(e) = <<>>
            => IsError(e.response, 400, 499) /\ e.queries = <<>>

(***************************************************************************)
(* C2: when the provider call of some strategy fails (status not ok, or    *)
(* the network call fails) the resolution ends with ProviderError, an      *)
(* {error} response with a server-error status: the failed call is the     *)
(* last call of the request, its query was sent once, and the response is  *)
(* neither Found nor NotFound.                                             *)
(***************************************************************************)
C2_ProviderErrorAborts ==
    \A e \in Served : \A k \in 1..Len(e.queries) :
        CallFailed(e, k)
            => /\ k = Len(e.queries)
               /\ \A j \in 1..Len(e.queries) :
                    e.queries[j].searchAddress = e.queries[k].searchAddress
                        => j = k
               /\ IsError(e.response, 500, 599)
               /\ ~IsFound(e.response)
               /\ ~IsNotFound(e.response)

\* a request whose third or later call got status 503, and the resolution
\* ended there
C2_Witness ==
    \E e \in Served :
        /\ Len(e.queries) >= 3
        /\ e.queries[Len(e.queries)].strategy >= 4
        /\ ~AnswerTo(e, Len(e.queries)).rejected
        /\ AnswerTo(e, Len(e.queries)).status = 503
        /\ e.response.status = 500

(***************************************************************************)
(* C3: when every provider call of a resolution returns an empty candidate *)
(* list and none fails, the response is the not-found response: success    *)
(* status, lat, lng and map_link null, success false, non-empty message.   *)
(***************************************************************************)
C3_NoCandidateIsNotFound ==
    \A e \in Served :
        /\ e.queries # <<>>
        /\ \A k \in 1..Len(e.queries) : CallEmpty(e, k)
        => IsNotFound(e.response)

\* a request that made several calls, all empty
C3_Witness ==
    \E e \in Served :
        /\ Len(e.queries) >= 4
        /\ \A k \in 1..Len(e.queries) : CallEmpty(e, k)
        /\ IsNotFound(e.response)

(***************************************************************************)
(* C4: the strategies call the provider in the order 1, 2, 3, 4, 5, the    *)
(* first call being strategy 1 with the trimmed address; the first call    *)
(* that returns a candidate is the last call, and the Found response is    *)
(* built from the first candidate of that call.                            *)
(***************************************************************************)
C4_FixedOrderStopAtFirstMatch ==
    /\ \A k \in 1..Len(queries) :
        /\ queries[k].strategy \in 1..5
        /\ k = 1 => queries[k].strategy = 1
                    /\ queries[k].searchAddress = cleanedAddress
        /\ k > 1 => queries[k - 1].strategy < queries[k].strategy
    /\ \A e \in Served : \A k \in 1..Len(e.queries) :
        CallMatched(e, k)
            => /\ k = Len(e.queries)
               /\ e.response = Found(AnswerTo(e, k).data[1])
               /\ IsFound(e.response)

\* a request whose strategy 1 and a later strategy found nothing and whose
\* strategy 5 then matched
C4_Witness ==
    \E e \in Served :
        /\ Len(e.queries) >= 3
        /\ e.queries[Len(e.queries)].strategy = 5
        /\ CallMatched(e, Len(e.queries))
        /\ IsFound(e.response)

(***************************************************************************)
(* C5: a request whose address field is missing, null or not a string is   *)
(* answered with {error} and status 400, and no provider call is made.     *)
(***************************************************************************)
C5_NonStringAddressIsInvalidInput ==
    \A e \in Served :
        e.method = "POST" /\ e.body.json /\ e.body.address.type # "string"
            => /\ IsError(e.response, 400, 400)
               /\ e.queries = <<>>
               /\ DOMAIN provider = {}

\* requests with a truthy address that is not a string, answered 400
C5_Witness ==
    \E e \in Served :
        /\ e.method = "POST"
        /\ e.body.json
        /\ e.body.address.type \in {"number", "object"}
        /\ ~Falsy(e.body.address)
        /\ IsError(e.response, 400, 400)

(***************************************************************************)
(* C6: a request that is answered with a result gets exactly one of Found  *)
(* and NotFound, and a Found response is never partial: whenever success   *)
(* is true, lat and lng are both numbers and map_link and display_name are *)
(* there.  The provider's candidates are those of its interface: each has  *)
(* lat, lon and display_name.                                              *)
(***************************************************************************)
C6_ExactlyOneResultNeverPartial ==
    \A e \in Served :
        LET r == e.response
        IN  /\ r.status >= 200 /\ r.status <= 299 /\ r # Preflight
                => IsFound(r) # IsNotFound(r)
            /\ e.queries # <<>> /\ (\A k \in 1..Len(e.queries) : ~CallFailed(e, k))
                => IsFound(r) # IsNotFound(r)
            /\ "success" \in DOMAIN r.body /\ r.body.success = TRUE
                => IsFound(r)
            /\ "lat" \in DOMAIN r.body
                => "lng" \in DOMAIN r.body
                   /\ (r.body.lat = null <=> r.body.lng = null)

\* a Found response with the coordinates of the candidate "13.650", "100.6"
C6_Witness ==
    \E e \in Served :
        /\ IsFound(e.response)
        /\ e.response.body.lat = Number(FALSE, 13, <<"6", "5">>)
        /\ e.response.body.lng = Number(FALSE, 100, <<"6">>)

C8_NoDigitsNoMarkerOneCall ==
    \A e \in Served :
        /\ HasStringAddress(e)
        /\ e.queries # <<>>
        /\ NoDigits(Trimmed(e))
        /\ CityMatch(Trimmed(e)) = NoMatch
        /\ CallEmpty(e, 1)
        => IsNotFound(e.response) /\ Len(e.queries) = 1

(***************************************************************************)
(* C8, amended: for an address with no digits, no recognizable             *)
(* district/locality marker and none of the four formal terms (tambon,     *)
(* amphoe, changwat, thanon) for which strategy 1 returns no candidate,    *)
(* the response is NotFound after exactly one provider call, that of       *)
(* strategy 1.                                                             *)
(***************************************************************************)
C8_NoDigitsNoMarkerNoFormalTermOneCall ==
    \A e \in Served :
        /\ HasStringAddress(e)
        /\ e.queries # <<>>
        /\ NoDigits(Trimmed(e))
        /\ CityMatch(Trimmed(e)) = NoMatch
        /\ NoFormalTerm(Trimmed(e))
        /\ CallEmpty(e, 1)
        => /\ IsNotFound(e.response)
           /\ Len(e.queries) = 1
           /\ e.queries[1].strategy = 1

\* an address of two names, not found by strategy 1
C8_Witness ==
    \E e \in Served :
        /\ HasStringAddress(e)
        /\ Trimmed(e) # <<>>
        /\ NoDigits(Trimmed(e))
        /\ CityMatch(Trimmed(e)) = NoMatch
        /\ NoFormalTerm(Trimmed(e))
        /\ Len(e.queries) = 1
        /\ CallEmpty(e, 1)
        /\ IsNotFound(e.response)

(***************************************************************************)
(* C9: strategy 3 calls the provider only with a rewritten string (formal  *)
(* terms abbreviated, trailing postal code removed) that differs from the  *)
(* trimmed address; when the rewrite is identical, it makes no call.       *)
(***************************************************************************)
C9_AbbreviatedOnlyIfDifferent ==
    /\ \A k \in 1..Len(queries) :
        queries[k].strategy = 3 => queries[k].searchAddress # cleanedAddress
    /\ \A e \in Served :
        HasStringAddress(e) /\ Abbreviate(Trimmed(e)) = Trimmed(e)
            => \A k \in 1..Len(e.queries) : e.queries[k].strategy # 3

\* strategy 3 called with a rewrite, after strategies 1 and 2 found nothing
C9_Witness ==
    \E e \in Served : \E k \in 1..Len(e.queries) :
        /\ e.queries[k].strategy = 3
        /\ k = 3
        /\ e.queries[k].searchAddress # Trimmed(e)

(***************************************************************************)
(* C10: the same request served twice, the provider's data unchanged, gets *)
(* the same response and sends the same provider queries in the same       *)
(* order.                                                                  *)
(***************************************************************************)
C10_Idempotent ==
    \A i, j \in 1..Len(served) :
        served[i].method = served[j].method /\ served[i].body = served[j].body
            => /\ served[i].response = served[j].response
               /\ served[i].queries = served[j].queries

\* a request served twice that made three calls or more and was found
C10_Witness ==
    /\ Len(served) >= 2
    /\ Len(served[2].queries) >= 3
    /\ \E k \in 1..Len(served[2].queries) : served[2].queries[k].strategy = 3
    /\ IsFound(served[2].response)

(***************************************************************************)
(* C11: a resolution makes at most 5 provider calls, one at a time: a call *)
(* is there only when every call before it has returned with an empty      *)
(* candidate list, and the only call that can be outstanding is the last   *)
(* one, which the handler is then waiting for.                             *)
(***************************************************************************)
C11_AtMostFiveCallsOneAtATime ==
    /\ Len(queries) <= 5
    /\ \A k \in 1..(Len(queries) - 1) :
        /\ NominatimUrl(queries[k].searchAddress) \in DOMAIN provider
        /\ ~provider[NominatimUrl(queries[k].searchAddress)].rejected
        /\ Ok(provider[NominatimUrl(queries[k].searchAddress)])
        /\ provider[NominatimUrl(queries[k].searchAddress)].data = <<>>
    /\ fetching # null
        => /\ pc = "fetch"
           /\ queries # <<>>
           /\ fetching = NominatimUrl(queries[Len(queries)].searchAddress)
    /\ pc = "fetch" => fetching # null
    /\ pc # "fetch" /\ queries # <<>>
        => NominatimUrl(queries[Len(queries)].searchAddress) \in DOMAIN provider

\* the fifth call of a resolution is outstanding
C11_Witness ==
    /\ Len(queries) = 5
    /\ pc = "fetch"
    /\ fetching # null

(***************************************************************************)
(* C12: for an address whose locality terms are already abbreviated and    *)
(* which ends in a 5-digit postal code, strategy 3 (reached when           *)
(* strategies 1 and 2 find nothing) asks for the address with only the     *)
(* trailing postal code and the white space before it removed.             *)
(***************************************************************************)
C12_AbbreviatedFormKept ==
    \A e \in Served :
        /\ HasStringAddress(e)
        /\ NoFormalTerm(Trimmed(e))
        /\ EndsInPostalCode(Trimmed(e))
        => /\ \A k \in 1..Len(e.queries) :
                e.queries[k].strategy = 3
                    => e.queries[k].searchAddress = PostalCodeRemoved(Trimmed(e))
           /\ Len(e.queries) >= 2 /\ CallEmpty(e, 1) /\ CallEmpty(e, 2)
                => /\ Len(e.queries) >= 3
                   /\ e.queries[3].strategy = 3

\* the address "12 tho.ko to.mo o.ko cho.mo 10270", the shape of the spec's
\* example, with strategy 3 called
C12_Witness ==
    \E e \in Served :
        /\ HasStringAddress(e)
        /\ Trimmed(e) = JoinWords(<<<<"1", "2">>, abbrThanon \o placeName,
                                    abbrTambon \o otherName,
                                    abbrAmphoe \o placeName,
                                    abbrChangwat \o otherName, postalCode>>)
        /\ Len(e.queries) >= 3
        /\ e.queries[3] =
            [strategy |-> 3,
             searchAddress |->
                JoinWords(<<<<"1", "2">>, abbrThanon \o placeName,
                            abbrTambon \o otherName, abbrAmphoe \o placeName,
                            abbrChangwat \o otherName>>)]

(***************************************************************************)
(* C13: strategy 4 calls the provider only when both the street and the    *)
(* district extraction match; when it is skipped the resolution goes on,   *)
(* and strategy 5 calls the provider whenever a locality marker matches.   *)
(***************************************************************************)
C13_StrategyFourNeedsBothSkipIsSilent ==
    \A e \in Served :
        HasStringAddress(e)
        => /\ \A k \in 1..Len(e.queries) :
                e.queries[k].strategy = 4
                    => /\ StreetMatch(Trimmed(e)) # NoMatch
                       /\ DistrictMatch(Trimmed(e)) # NoMatch
           /\ /\ e.queries # <<>>
              /\ \A k \in 1..Len(e.queries) :
                    CallEmpty(e, k) \/ e.queries[k].strategy = 5
              /\ CityMatch(Trimmed(e)) # NoMatch
              => e.queries[Len(e.queries)].strategy = 5

\* the street matches and the district does not: strategy 4 was skipped and
\* strategy 5 called with the sub-district
C13_Witness ==
    \E e \in Served :
        /\ HasStringAddress(e)
        /\ StreetMatch(Trimmed(e)) # NoMatch
        /\ DistrictMatch(Trimmed(e)) = NoMatch
        /\ e.queries # <<>>
        /\ e.queries[Len(e.queries)].strategy = 5
        /\ \A k \in 1..Len(e.queries) : e.queries[k].strategy # 4

(***************************************************************************)
(* C14: when a provider call returns several candidates, the Found         *)
(* response uses the first one only: lat, lng and display_name are those   *)
(* of candidate 1, and map_link is the fixed template filled with exactly  *)
(* the lat and lng of the response.                                        *)
(***************************************************************************)
C14_FirstCandidateOnly ==
    \A e \in Served :
        e.queries # <<>> /\ CallMatched(e, Len(e.queries))
        => LET first == AnswerTo(e, Len(e.queries)).data[1]
               b == e.response.body
           IN  /\ b.lat = parseFloat(first.lat)
               /\ b.lng = parseFloat(first.lon)
               /\ b.display_name = first.display_name
               /\ b.map_link =
                    Str(<<"https://maps.google.com/?q=">>
                        \o NumberToString(b.lat) \o <<",">>
                        \o NumberToString(b.lng))

\* two candidates returned, the response is that of the first (Bang Na)
C14_Witness ==
    \E e \in Served :
        /\ e.queries # <<>>
        /\ CallMatched(e, Len(e.queries))
        /\ Len(AnswerTo(e, Len(e.queries)).data) = 2
        /\ e.response.body.display_name = Str(<<"Bang Na">>)
        /\ e.response.body.map_link =
            Str(<<"https://maps.google.com/?q=", "1", "3", ".", "6", "5", ",",
                  "1", "0", "0", ".", "6">>)

(***************************************************************************)
(* C15: within a single resolution no two provider calls carry the same    *)
(* query string.                                                           *)
(***************************************************************************)
C15_NoDuplicateQuery ==
    \A j, k \in 1..Len(queries) :
        queries[j].searchAddress = queries[k].searchAddress => j = k

(***************************************************************************)
(* The Dashboard page.                                                     *)
(***************************************************************************)
\* nothing of the search is pending: no timer and no invocation
SearchQuiet == timer = null /\ searches = {}

\* every report of the list has the urgency level
AllOfLevel(list, level) ==
    \A i \in 1..Len(list) : list[i].urgency_level = level

\* C16: once every search-reports invocation in flight has completed and no
\* debounce timer is pending, filteredReports is the result for the current
\* searchTerm and urgencyFilter; the response of an earlier search never
\* replaces that of a later one; and isSearching is true whenever a search
\* is in flight.
C16_SearchShowsCurrentTerm ==
    /\ SearchQuiet =>
            shown.searchTerm = searchTerm /\ shown.urgencyFilter = urgencyFilter
    /\ shown.by = "search" => shown.search = shown.newest
    /\ searches # {} => isSearching

\* C17: while an urgency filter is active, the completion of fetchReports
\* never leaves in filteredReports a report of another urgency level; and
\* with an empty search term filteredReports always is reports restricted to
\* urgencyFilter.
C17_FilteredReportsRespectFilter ==
    /\ shown.by = "fetch" /\ shown.urgencyFilter # null =>
            AllOfLevel(filteredReports, shown.urgencyFilter)
    /\ searchTerm = <<>> => filteredReports = Restrict(reports, urgencyFilter)

\* C18: when the calls of fetchReports overlap, reports holds, after all of
\* them completed, the rows read by the call started last (unless that call
\* failed); and isLoading is true whenever a fetch is in flight.
C18_LastStartedFetchWins ==
    /\ fetches = {} /\ started.fetch \notin shown.failed =>
            shown.reports = started.fetch
    /\ fetches # {} => isLoading

(***************************************************************************)
(* The QueryBot component.                                                 *)
(***************************************************************************)
\* this step is a call of handleQuery
Asks == Len(asked') > Len(asked) /\ asked'[Len(asked')] \in {"blank", "invoked"}

\* this step is an invocation that settles
Settles == Len(invocations') < Len(invocations)

\* this step is an invocation that fails
Fails == Len(asked') > Len(asked) /\ asked'[Len(asked')] = "failed"

\* C19: handleQuery with an empty or whitespace-only query invokes nothing and
\* changes neither isQuerying nor result; otherwise at most one query-reports
\* invocation is in flight at any time; isQuerying is false after every
\* invocation that settled; and after an invocation failed (a transport
\* error or data.error) result is null, not the answer before.
C19_OneQueryAtATime ==
    [][/\ Asks /\ trim(query) = <<>> =>
            UNCHANGED <<invocations, isQuerying, answer>>
       /\ Len(invocations') <= 1
       /\ Settles => ~isQuerying'
       /\ Fails => answer' = null]_vars

\* a blank question was asked, a question was answered, and a later
\* question failed
C19_Witness ==
    /\ \E i \in 1..Len(asked) : asked[i] = "blank"
    /\ \E i, j \in 1..Len(asked) :
        i < j /\ asked[i] = "answered" /\ asked[j] = "failed"
    /\ answer = null

(***************************************************************************)
(* The Review page.                                                        *)
(***************************************************************************)
\* this step is an insert that starts
InsertStarts == Len(inserts') > Len(inserts)

\* this step is an insert that settles, and one that fails
InsertSettled == Len(inserts') < Len(inserts)
InsertFailed == InsertSettled /\ saves'[Len(saves')] = "failed"

\* C20: handleSave navigates to /dashboard only after the insert returned
\* without an error; when the insert fails the user stays where they are and
\* formData and phoneInput are unchanged; isSaving is false afterwards in
\* both cases; no second insert starts while isSaving is true; and no insert
\* starts while the name or the address is empty.
C20_SaveThenLeave ==
    [][/\ path' = "/dashboard" /\ path # "/dashboard" =>
            InsertSettled /\ saves'[Len(saves')] = "saved"
       /\ InsertFailed => UNCHANGED <<path, formData, phoneInput>>
       /\ InsertSettled => ~isSaving'
       /\ InsertStarts =>
            /\ ~isSaving
            /\ inserts = <<>>
            /\ formData.name # Str(<<>>)
            /\ formData.address # Str(<<>>)]_vars

\* a save failed, the user saved again and was taken to the dashboard
C20_Witness ==
    /\ saves = <<"started", "failed", "started", "saved">>
    /\ path = "/dashboard"
    /\ ~isSaving
====
